---- MODULE Spec2Model ----
(***************************************************************************)
(* Flight-route resolution of FlightTracker (src/src/flight_tracker.py):   *)
(* the route database file, the in-memory route database, the route cache, *)
(* the Aerodatabox quota state and lookup_flight_route with its two        *)
(* provider adapters.  Strings that the code inspects character by         *)
(* character (flight numbers) are sequences of one-character strings.      *)
(***************************************************************************)
EXTENDS Integers, Sequences, FiniteSets, TLC

VARIABLES
    database_file,        \* data/flight_routes.json on disk
    route_database,       \* self.route_database
    route_cache,          \* self.route_cache
    route_cache_time,     \* self.route_cache_time
    quota_exceeded,       \* self.quota_exceeded
    quota_exceeded_until, \* self.quota_exceeded_until
    quota_error_logged,   \* self.quota_error_logged
    airport_cache,        \* self._airport_cache
    route_api_provider,   \* self.route_api_provider
    aviation_edge_key,    \* self.aviation_edge_key
    rapidapi_key,         \* self.rapidapi_key
    now,                  \* time.time()
    ticks,                \* number of clock advances so far
    pc,                   \* position of the caller inside lookup_flight_route
    call,                 \* locals and observations of the current / last call
    loaded_kind,          \* what __init__ found on disk when it loaded
    last_429,             \* per provider: when it last answered 429 in an
                          \* earlier call of this tracker (-1: never)
    builder,              \* FlightRouteBuilder of scripts/scrape_flight_routes.py:
                          \* where it is, its loop index i, self.database
    threads,              \* per thread of a host that calls lookup_flight_route
                          \* from several threads: position and locals
    active_process,       \* web_controller.py: active_process (0 for None)
    active_mode,          \* web_controller.py: active_mode
    children,             \* display processes started by Popen and alive
    spawned,              \* number of Popen calls so far
    handlers,             \* per request thread of the web server: the request
                          \* it serves and its position
    consecutive_failures, \* self.consecutive_failures
    last_error_time,      \* self.last_error_time
    last_update,          \* self.last_update
    last_seen_flight,     \* self.last_seen_flight
    poll                  \* the last update_flights call: what its fetch gave,
                          \* and how many fetches in a row have failed

\* the tracker's variables that the route database file is not part of
trackerRest == <<route_cache, route_cache_time, quota_exceeded,
                 quota_exceeded_until, quota_error_logged, airport_cache,
                 route_api_provider, aviation_edge_key, rapidapi_key,
                 now, ticks, call, loaded_kind, last_429>>

\* the web controller
webVars == <<active_process, active_mode, children, spawned, handlers>>

\* the polling of flights
pollVars == <<consecutive_failures, last_error_time, last_update,
              last_seen_flight, poll>>

\* what lives outside the single-threaded route lookup and its clock
outside == <<builder, threads, webVars, pollVars>>

\* the same without the builder script
notBuilder == <<threads, webVars, pollVars>>

\* the same without the threads
notThreads == <<builder, webVars, pollVars>>

\* the same without the web controller
notWeb == <<builder, threads, pollVars>>

\* the same without the polling
notPoll == <<builder, threads, webVars>>

vars == <<database_file, route_database, pc, trackerRest, outside>>

-----------------------------------------------------------------------------
(* Bounds *)

MaxTicks == 2

\* longest run of digits in the flight numbers drawn for the variant list
MaxDigits == 2

\* display processes the web controller starts in one behaviour
MaxSpawn == 3

\* clock advances of the polling loop in one behaviour
MaxPolls == 6

-----------------------------------------------------------------------------
(* Program constants *)

route_cache_ttl == 3600

QuotaCooldown == 24 * 3600

\* clock advances offered to the model: half the cache TTL (one advance
\* leaves a cache entry fresh, two bring it to the TTL exactly) and the rest
\* of the quota cool-down (the two together bring the clock to the deadline
\* exactly)
TickSteps == {route_cache_ttl \div 2, QuotaCooldown - route_cache_ttl \div 2}

-----------------------------------------------------------------------------
(* Characters and strings *)

LowerSeq == <<"a","b","c","d","e","f","g","h","i","j","k","l","m",
              "n","o","p","q","r","s","t","u","v","w","x","y","z">>

UpperSeq == <<"A","B","C","D","E","F","G","H","I","J","K","L","M",
              "N","O","P","Q","R","S","T","U","V","W","X","Y","Z">>

UpperLetters == {UpperSeq[i] : i \in 1..26}

Digits == {"0","1","2","3","4","5","6","7","8","9"}

Whitespace == {" "}

\* str.upper() on one character
UpperChar(c) ==
    IF \E i \in 1..26 : LowerSeq[i] = c
    THEN UpperSeq[CHOOSE i \in 1..26 : LowerSeq[i] = c]
    ELSE c

\* str.upper()
upper(s) == [i \in 1..Len(s) |-> UpperChar(s[i])]

RECURSIVE lstrip(_)
lstrip(s) ==
    IF s # <<>> /\ Head(s) \in Whitespace THEN lstrip(Tail(s)) ELSE s

RECURSIVE rstrip(_)
rstrip(s) ==
    IF s # <<>> /\ s[Len(s)] \in Whitespace
    THEN rstrip(SubSeq(s, 1, Len(s) - 1))
    ELSE s

\* str.strip()
strip(s) == rstrip(lstrip(s))

\* flight_number.strip().upper()
Normalise(raw) == upper(strip(raw))

\* length of the longest prefix of s made of characters of set S
RECURSIVE RunLen(_, _)
RunLen(s, S) ==
    IF s # <<>> /\ Head(s) \in S THEN 1 + RunLen(Tail(s), S) ELSE 0

Drop(s, n) == SubSeq(s, n + 1, Len(s))

\* the match as it would be with the pattern ^([A-Z]{2,3})(\d+)$, which has
\* no optional trailing letter
Match_DigitsOnly(s) ==
    LET l    == RunLen(s, UpperLetters)
        rest == Drop(s, l)
        d    == RunLen(rest, Digits)
    IN  IF l \in {2, 3} /\ d >= 1 /\ Drop(rest, d) = <<>>
        THEN <<SubSeq(s, 1, l), rest>>
        ELSE <<>>

\* re.match(r'^([A-Z]{2,3})(\d+[A-Z]?)$', s): the groups, or <<>> when
\* there is no match
Match(s) ==
    LET l    == RunLen(s, UpperLetters)
        rest == Drop(s, l)
        d    == RunLen(rest, Digits)
        tail == Drop(rest, d)
    IN  IF /\ l \in {2, 3}
           /\ d >= 1
           /\ \/ tail = <<>>
              \/ Len(tail) = 1 /\ tail[1] \in UpperLetters
        THEN <<SubSeq(s, 1, l), rest>>
        ELSE <<>>

ICAO_TO_IATA ==
    (<<"U","A","E">> :> <<"E","K">>) @@
    (<<"Q","T","R">> :> <<"Q","R">>) @@
    (<<"I","G","O">> :> <<"6","E">>)

\* flight_numbers_to_try as it would be if every matched airline code were
\* translated with ICAO_TO_IATA.get(airline_code, airline_code)
FlightNumbersToTry_AlwaysAppend(flight_number) ==
    LET m == Match(flight_number)
    IN  IF m # <<>>
        THEN <<flight_number,
               (IF m[1] \in DOMAIN ICAO_TO_IATA
                THEN ICAO_TO_IATA[m[1]] ELSE m[1]) \o m[2]>>
        ELSE <<flight_number>>

\* flight_numbers_to_try for an already normalised flight number
FlightNumbersToTry(flight_number) ==
    LET m == Match(flight_number)
    IN  IF m # <<>> /\ Len(m[1]) = 3 /\ m[1] \in DOMAIN ICAO_TO_IATA
        THEN <<flight_number, ICAO_TO_IATA[m[1]] \o m[2]>>
        ELSE <<flight_number>>

-----------------------------------------------------------------------------
(* Route records *)

Route(o, d, oc, dc, ok, dk) ==
    [origin |-> o, destination |-> d, origin_city |-> oc,
     destination_city |-> dc, origin_country |-> ok,
     destination_country |-> dk]

\* dict.get(key, "")
Get(dict, key) == IF key \in DOMAIN dict THEN dict[key] ELSE ""

\* the 6-tuple lookup_flight_route builds from a stored or cached dict
RouteTuple(route_data) ==
    <<Get(route_data, "origin"), Get(route_data, "destination"),
      Get(route_data, "origin_city"), Get(route_data, "destination_city"),
      Get(route_data, "origin_country"), Get(route_data, "destination_country")>>

EmptyTuple == <<"", "", "", "", "", "">>

EmptyMap == [k \in {} |-> 0]

-----------------------------------------------------------------------------
(* The route database: file and in-memory object *)

\* A JSON value as json.load returns it and json.dump writes it: an object
\* mapping flight numbers to route dicts ("dict"), or an array ("list", the
\* empty array: valid JSON that is not an object).
JsonDict(entries) == [kind |-> "dict", entries |-> entries]

JsonList == [kind |-> "list", entries |-> EmptyMap]

\* On disk the file may also be absent or hold text that is not JSON.
MissingFile == [kind |-> "missing", entries |-> EmptyMap]

CorruptFile == [kind |-> "corrupt", entries |-> EmptyMap]

UAE215 == <<"U","A","E","2","1","5">>

EK215 == <<"E","K","2","1","5">>

StoredA == Route("DXB", "LHR", "Dubai", "London", "AE", "GB")

StoredB == Route("LHR", "DXB", "London", "Dubai", "GB", "AE")

\* contents of data/flight_routes.json found at the first start
InitialFiles ==
    { MissingFile, CorruptFile, JsonList,
      JsonDict(EmptyMap),
      JsonDict(EK215 :> StoredA),
      JsonDict((UAE215 :> StoredB) @@ (EK215 :> StoredA)) }

\* _load_route_database: the value self.route_database gets
load_route_database(file) ==
    IF file.kind \in {"dict", "list"} THEN file ELSE JsonDict(EmptyMap)

\* outcomes of one _save_route_database call: written in full, open() or
\* mkdir() raised (file untouched), json.dump raised after open() truncated
\* the file (partial text left behind)
SaveOutcomes == {"ok", "open_failed", "write_failed"}

\* _save_route_database: the file after saving database with that outcome
save_route_database(file, database, outcome) ==
    CASE outcome = "ok"           -> database
      [] outcome = "open_failed"  -> file
      [] outcome = "write_failed" -> CorruptFile

\* fn in self.route_database
InDatabase(database, fn) == fn \in DOMAIN database.entries

\* the insert as it would be if it rebuilt the dict around the new entry
DatabaseInsert_Replace(database, fn, route_data) ==
    [database EXCEPT !.entries = (fn :> route_data)]

\* self.route_database[fn] = route_data
DatabaseInsert(database, fn, route_data) ==
    [database EXCEPT !.entries = (fn :> route_data) @@ database.entries]

-----------------------------------------------------------------------------
(* Configuration *)

\* route_api_provider, aviation_edge_key, rapidapi_key as read from the
\* flight_tracker section of the configuration
Configs ==
    { <<"aviation_edge", "key", "key">>,
      <<"aerodatabox", "key", "key">>,
      <<"aviation_edge", "", "">> }

\* raw flight numbers handed to lookup_flight_route
RawIds == { <<"u","a","e","2","1","5">>, <<" ","e","k","2","1","5"," ">> }

\* raw flight numbers drawn to exercise the variant list: optional blanks
\* around an airline part, a run of digits and a tail
Pads == { <<>>, <<" ">> }

AirlineParts ==
    { <<>>, <<"e">>, <<"e","k">>, <<"u","a","e">>, <<"U","a","E">>,
      <<"i","g","o">>, <<"x","y","z">>, <<"u","a","e","x">>, <<"6","e">> }

DigitRuns == UNION { [1..n -> {"2"}] : n \in 0..MaxDigits }

Tails == { <<>>, <<"a">>, <<"a","b">>, <<" ","a">> }

DrawnIds ==
    { l \o a \o d \o t \o r :
        l \in Pads, a \in AirlineParts, d \in DigitRuns, t \in Tails,
        r \in Pads }

Never429 == [aviation_edge |-> -1, aerodatabox |-> -1]

\* 429s seen in the call that just ended become 429s of an earlier call
Merge429(l, t) ==
    [p \in DOMAIN l |-> IF t[p] >= 0 THEN t[p] ELSE l[p]]

NoCall ==
    [raw |-> <<>>, flight_number |-> <<>>, flight_numbers_to_try |-> <<>>,
     variant |-> 0, endpoint |-> 0, endpoints |-> 0,
     requests |-> [aviation_edge |-> 0, aerodatabox |-> 0, airports |-> 0],
     provider_calls |-> 0, t429 |-> Never429, in_store |-> FALSE,
     expired_seen |-> FALSE, inserted |-> {}, started |-> 0,
     outcome |-> "none", result |-> EmptyTuple, fresh |-> FALSE,
     via |-> <<>>, empty_start |-> FALSE,
     again |-> FALSE, first_result |-> EmptyTuple, first_empty |-> FALSE,
     last |-> "none", only204 |-> FALSE, blocked_start |-> FALSE]

\* FlightTracker.__init__: the route and quota state of a new tracker
Constructed(file) ==
    /\ route_cache = EmptyMap
    /\ route_cache_time = EmptyMap
    /\ route_database = load_route_database(file)
    /\ quota_exceeded = FALSE
    /\ quota_exceeded_until = 0
    /\ quota_error_logged = FALSE
    /\ airport_cache = EmptyMap

\* the builder script before it is started
BuilderOff == [pc |-> "off", i |-> 0, database |-> JsonDict(EmptyMap)]

\* threads of a concurrent host
Threads == {"t1", "t2"}

\* a thread that has not called lookup_flight_route yet: the call record,
\* the route it got from the provider, the keys it has yet to store
ThreadIdle == [pc |-> "idle", c |-> NoCall, route |-> EmptyMap, keys |-> <<>>]

\* request threads of the web server
Handlers == {"r1", "r2"}

NoProcess == 0

HandlerIdle == [pc |-> "idle", op |-> "none", mode |-> "None", ret |-> "idle"]

\* the web controller after import: no mode runs
WebIdle ==
    /\ active_process = NoProcess
    /\ active_mode = "None"
    /\ children = {}
    /\ spawned = 0
    /\ handlers = [h \in Handlers |-> HandlerIdle]

NoFlight == [callsign |-> ""]

\* the polling state after __init__
PollIdle ==
    /\ consecutive_failures = 0
    /\ last_error_time = 0
    /\ last_update = 0
    /\ last_seen_flight = NoFlight
    /\ poll = [fetched |-> "none", failed_in_a_row |-> 0]

\* nothing but the route lookup runs, on one thread
OutsideIdle ==
    /\ builder = BuilderOff
    /\ threads = [t \in Threads |-> ThreadIdle]
    /\ WebIdle
    /\ PollIdle

Init ==
    /\ database_file \in InitialFiles
    /\ \E c \in Configs :
          /\ route_api_provider = c[1]
          /\ aviation_edge_key = c[2]
          /\ rapidapi_key = c[3]
    /\ Constructed(database_file)
    /\ now = 0
    /\ ticks = 0
    /\ pc = "idle"
    /\ call = NoCall
    /\ loaded_kind = database_file.kind
    /\ last_429 = Never429
    /\ OutsideIdle

\* __init__ runs on the file as it is now
Reloaded ==
    /\ route_cache' = EmptyMap
    /\ route_cache_time' = EmptyMap
    /\ route_database' = load_route_database(database_file)
    /\ quota_exceeded' = FALSE
    /\ quota_exceeded_until' = 0
    /\ quota_error_logged' = FALSE
    /\ airport_cache' = EmptyMap
    /\ call' = NoCall
    /\ loaded_kind' = database_file.kind
    /\ last_429' = Never429
    /\ UNCHANGED <<database_file, route_api_provider, aviation_edge_key,
                   rapidapi_key, now, ticks>>

\* the process is started again
Restart ==
    /\ pc = "idle"
    /\ Reloaded
    /\ UNCHANGED pc
    /\ UNCHANGED outside

\* time passes between two calls
Tick ==
    /\ pc = "idle"
    /\ ticks < MaxTicks
    /\ \E d \in TickSteps : now' = now + d
    /\ ticks' = ticks + 1
    /\ call' = NoCall
    /\ last_429' = Merge429(last_429, call.t429)
    /\ UNCHANGED <<database_file, route_database, route_cache,
                   route_cache_time, quota_exceeded, quota_exceeded_until,
                   quota_error_logged, airport_cache, route_api_provider,
                   aviation_edge_key, rapidapi_key, pc, loaded_kind>>
    /\ UNCHANGED outside

-----------------------------------------------------------------------------
(* lookup_flight_route: database, cache, choice of provider *)

\* lookup_flight_route's first lines, tabulated over the raw flight numbers
\* of the model: flight_number after strip().upper() ...
NormalisedId == [raw \in RawIds \cup DrawnIds |-> Normalise(raw)]

\* ... and flight_numbers_to_try
VariantsOfId ==
    [raw \in RawIds \cup DrawnIds |-> FlightNumbersToTry(Normalise(raw))]

\* STEP 1 as it would be if only the original flight number were looked up
StoreHit_OriginalOnly(database, tries) ==
    IF InDatabase(database, tries[1]) THEN 1 ELSE 0

\* STEP 1 as it would be if a later variant replaced an earlier hit
StoreHit_LastHit(database, tries) ==
    IF \E i \in 1..Len(tries) : InDatabase(database, tries[i])
    THEN CHOOSE i \in 1..Len(tries) :
            /\ InDatabase(database, tries[i])
            /\ \A j \in (i + 1)..Len(tries) : ~InDatabase(database, tries[j])
    ELSE 0

\* STEP 1: position in tries of the first flight number that is a key of
\* the database, 0 when there is none
StoreHit(database, tries) ==
    IF \E i \in 1..Len(tries) : InDatabase(database, tries[i])
    THEN CHOOSE i \in 1..Len(tries) :
            /\ InDatabase(database, tries[i])
            /\ \A j \in 1..(i - 1) : ~InDatabase(database, tries[j])
    ELSE 0

\* the cache write as it would be if it replaced the whole cache
CachePut_Only(cache, fn, value) == (fn :> value)

\* self.route_cache[fn] = value (and the same for route_cache_time): one
\* key is set, the other entries stay
CachePut(cache, fn, value) == (fn :> value) @@ cache

\* self.route_cache_time.get(fn, 0)
CacheTime(cache_time, fn) ==
    IF fn \in DOMAIN cache_time THEN cache_time[fn] ELSE 0

\* the test of STEP 2 as it would be without the TTL comparison
CacheFresh_NoTtl(cache, cache_time, fn, t) == fn \in DOMAIN cache

\* the test of STEP 2 on one flight number at time t
CacheFresh(cache, cache_time, fn, t) ==
    /\ fn \in DOMAIN cache
    /\ t - CacheTime(cache_time, fn) < route_cache_ttl

\* STEP 2 as it would be if only the original flight number were looked up
CacheHit_OriginalOnly(cache, cache_time, tries, t) ==
    IF CacheFresh(cache, cache_time, tries[1], t) THEN 1 ELSE 0

\* STEP 2: position in tries of the first flight number with an unexpired
\* cache entry, 0 when there is none
CacheHit(cache, cache_time, tries, t) ==
    IF \E i \in 1..Len(tries) : CacheFresh(cache, cache_time, tries[i], t)
    THEN CHOOSE i \in 1..Len(tries) :
            /\ CacheFresh(cache, cache_time, tries[i], t)
            /\ \A j \in 1..(i - 1) : ~CacheFresh(cache, cache_time, tries[j], t)
    ELSE 0

\* the Aviation Edge branch of STEP 3 is taken
UseAviationEdge(provider, key) == provider = "aviation_edge" /\ key # ""

\* the quota test as it would be without the comparison with the deadline
InCooldown_Forever(exceeded, until, t) == exceeded

\* the quota test before the Aerodatabox requests: still in cool-down
InCooldown(exceeded, until, t) == exceeded /\ t < until

\* endpoints_to_try: one endpoint, three when the quota flag is down
EndpointsToTry(exceeded) == IF ~exceeded THEN 3 ELSE 1

\* the call record when lookup_flight_route returns (its loop counters
\* are gone)
Finished(c, outcome, result) ==
    [c EXCEPT !.outcome = outcome, !.result = result, !.fresh = TRUE,
              !.variant = 0, !.endpoint = 0, !.endpoints = 0]

lookup_flight_route(raw) ==
    /\ pc = "idle"
    /\ LET flight_number == NormalisedId[raw]
           tries == VariantsOfId[raw]
           s == StoreHit(route_database, tries)
           h == CacheHit(route_cache, route_cache_time, tries, now)
           \* the call before this one was for the same raw flight number,
           \* got its route from a provider and returned this very moment
           repeat == /\ call.raw = raw /\ call.fresh
                     /\ call.outcome = "FromProvider"
           c == [NoCall EXCEPT
                   !.raw = raw,
                   !.flight_number = flight_number,
                   !.flight_numbers_to_try = tries,
                   !.in_store = \E i \in 1..Len(tries) :
                                   tries[i] \in DOMAIN route_database.entries,
                   !.expired_seen = \E i \in 1..Len(tries) :
                       /\ tries[i] \in DOMAIN route_cache
                       /\ now - route_cache_time[tries[i]] >= route_cache_ttl,
                   !.started = now,
                   !.empty_start = /\ route_database.entries = EmptyMap
                                   /\ route_cache = EmptyMap,
                   !.blocked_start = quota_exceeded,
                   !.again = repeat,
                   !.first_result =
                       IF repeat THEN call.result ELSE EmptyTuple,
                   !.first_empty = repeat /\ call.empty_start]
       IN
       /\ last_429' = Merge429(last_429, call.t429)
       /\ IF s > 0
          THEN \* STEP 1: database hit, the cache entry is refreshed
               /\ route_cache' =
                     CachePut(route_cache, tries[s],
                              route_database.entries[tries[s]])
               /\ route_cache_time' = CachePut(route_cache_time, tries[s], now)
               /\ call' = Finished([c EXCEPT !.via = tries[s]], "FromStore",
                                   RouteTuple(route_database.entries[tries[s]]))
               /\ UNCHANGED <<pc, quota_exceeded, quota_error_logged>>
          ELSE IF h > 0
          THEN \* STEP 2: cache hit
               /\ call' = Finished([c EXCEPT !.via = tries[h]], "FromCache",
                                   RouteTuple(route_cache[tries[h]]))
               /\ UNCHANGED <<pc, route_cache, route_cache_time,
                              quota_exceeded, quota_error_logged>>
          ELSE IF UseAviationEdge(route_api_provider, aviation_edge_key)
          THEN \* STEP 3: _lookup_route_aviation_edge is entered
               /\ pc' = "aviation_edge"
               /\ call' = [c EXCEPT !.variant = 1, !.provider_calls = 1]
               /\ UNCHANGED <<route_cache, route_cache_time,
                              quota_exceeded, quota_error_logged>>
          ELSE IF rapidapi_key = ""
          THEN /\ call' = Finished(c, "NotFound", EmptyTuple)
               /\ UNCHANGED <<pc, route_cache, route_cache_time,
                              quota_exceeded, quota_error_logged>>
          ELSE IF InCooldown(quota_exceeded, quota_exceeded_until, now)
          THEN /\ call' = Finished(c, "NotFound", EmptyTuple)
               /\ UNCHANGED <<pc, route_cache, route_cache_time,
                              quota_exceeded, quota_error_logged>>
          ELSE \* cool-down over (or never started): the Aerodatabox loop
               /\ quota_exceeded' = FALSE
               /\ quota_error_logged' =
                     IF quota_exceeded THEN FALSE ELSE quota_error_logged
               /\ pc' = "aerodatabox"
               /\ call' = [c EXCEPT !.variant = 1, !.endpoint = 1,
                                    !.endpoints = EndpointsToTry(FALSE),
                                    !.provider_calls = 1]
               /\ UNCHANGED <<route_cache, route_cache_time>>
    /\ UNCHANGED <<database_file, route_database, quota_exceeded_until,
                   airport_cache, route_api_provider, aviation_edge_key,
                   rapidapi_key, now, ticks, loaded_kind>>
    /\ UNCHANGED outside

-----------------------------------------------------------------------------
(* Provider responses *)

\* what requests.get and response.json() can produce: status 0 stands for
\* an exception raised by requests.get (timeout, connection error); body is
\* "notjson" when response.json() raises, "scalar" for JSON that is neither
\* a list nor an object, "emptylist" for [], "badlist" for a list whose
\* first element is not an object, "flight" for a flight object (alone or
\* first in a list)
FailedStatuses == {0, 204, 429, 500}

BadBodies == {"notjson", "scalar", "emptylist", "badlist"}

\* departure / arrival of an Aerodatabox flight object
Absent == [form |-> "absent", iata |-> "", municipalityName |-> "",
           countryCode |-> ""]

Flat(code) == [form |-> "flat", iata |-> code, municipalityName |-> "",
               countryCode |-> ""]

Nested(code, city, country) ==
    [form |-> "nested", iata |-> code, municipalityName |-> city,
     countryCode |-> country]

Departures == {Absent, Nested("DXB", "Dubai", "AE")}

Arrivals == {Absent, Flat("LHR")}

AerodataboxResponses ==
    {[status |-> st, body |-> "none", departure |-> Absent, arrival |-> Absent] :
        st \in FailedStatuses}
    \cup
    {[status |-> 200, body |-> b, departure |-> Absent, arrival |-> Absent] :
        b \in BadBodies}
    \cup
    {[status |-> 200, body |-> "flight", departure |-> d, arrival |-> a] :
        d \in Departures, a \in Arrivals}

\* the if-chain on response.status_code in the Aerodatabox loop: 204 and
\* every status other than 200 and 429 go on with the next endpoint
\* ("continue"; so does an exception of requests.get, status 0), 429 starts
\* the cool-down ("quota"), 200 has its body parsed ("parse")
AerodataboxStatusClass_NoContentAsQuota(status) ==
    IF status \in {204, 429} THEN "quota"
    ELSE IF status # 200 THEN "continue"
    ELSE "parse"

AerodataboxStatusClass(status) ==
    IF status = 204 THEN "continue"
    ELSE IF status = 429 THEN "quota"
    ELSE IF status # 200 THEN "continue"
    ELSE "parse"

\* code, city and country the parser takes from departure or arrival:
\* departure.airport.{iata, municipalityName, countryCode} when nested,
\* departure.iata alone when flat, nothing when the object is absent
ParseSide(side) ==
    CASE side.form = "nested" ->
            [code |-> side.iata, city |-> side.municipalityName,
             country |-> side.countryCode]
      [] side.form = "flat" -> [code |-> side.iata, city |-> "", country |-> ""]
      [] OTHER -> [code |-> "", city |-> "", country |-> ""]

\* route_data built from a 200 response with a flight object
AerodataboxRoute(resp) ==
    LET o == ParseSide(resp.departure)
        d == ParseSide(resp.arrival)
    IN  Route(o.code, d.code, o.city, d.city, o.country, d.country)

\* "if origin or destination": the record is cached and saved
AerodataboxAccepts(route) == route.origin # "" \/ route.destination # ""

\* departure.iataCode / arrival.iataCode of the first Aviation Edge flight
AviationEdgeResponses ==
    {[status |-> st, body |-> "none", departure |-> "", arrival |-> ""] :
        st \in FailedStatuses}
    \cup
    {[status |-> 200, body |-> b, departure |-> "", arrival |-> ""] :
        b \in BadBodies}
    \cup
    {[status |-> 200, body |-> "flight", departure |-> d, arrival |-> a] :
        d \in {"", "DXB"}, a \in {"", "LHR"}}

\* "if origin and destination": the adapter returns a route
AviationEdgeAccepts(resp) ==
    /\ resp.status = 200
    /\ resp.body = "flight"
    /\ resp.departure # "" /\ resp.arrival # ""

\* what a response was, for the record of the call: "204" no content, "429"
\* quota exceeded, "transient" for an exception of requests.get, another
\* status or a body that cannot be used, "found" for a flight the adapter
\* accepts, "nodata" for a flight it does not accept
ResponseKind(resp, accepted) ==
    IF resp.status = 204 THEN "204"
    ELSE IF resp.status = 429 THEN "429"
    ELSE IF resp.status # 200 \/ resp.body \in BadBodies THEN "transient"
    ELSE IF accepted THEN "found"
    ELSE "nodata"

\* the record of the call after one more answer of that kind
Answered(c, kind) ==
    [c EXCEPT !.last = kind,
              !.only204 = /\ kind = "204"
                          /\ \/ c.last = "none"
                             \/ c.only204]

\* nameAirport (cleaned of its airport suffix) and codeIso2Country that the
\* airportDatabase endpoint reports
AirportInfo == ("DXB" :> <<"Dubai", "AE">>) @@ ("LHR" :> <<"London", "GB">>)

AirportResponses == {"found", "failed"}

\* _get_airport_details: the cache afterwards, the (city, country) pair
\* returned and the number of requests sent
get_airport_details(cache, airport_code, resp) ==
    IF airport_code \in DOMAIN cache
    THEN [cache |-> cache, details |-> cache[airport_code], requests |-> 0]
    ELSE LET details == IF resp = "found" THEN AirportInfo[airport_code]
                        ELSE <<"", "">>
         IN  [cache |-> (airport_code :> details) @@ cache,
              details |-> details, requests |-> 1]

-----------------------------------------------------------------------------
(* STEP 3 with Aviation Edge: one request of _lookup_route_aviation_edge,   *)
(* and what lookup_flight_route does with the adapter's answer              *)

\* the guard as it would be if discoveries were never written
MayInsert_Never(database, fn) == FALSE

\* the route database is written only when the flight number is not a key
MayInsert(database, fn) == ~InDatabase(database, fn)

\* line 565 as it would be if a miss of Aviation Edge went on to Aerodatabox
\* whenever a RapidAPI key is configured
AfterAviationEdgeMiss_FallBack(key) ==
    IF key # "" THEN "aerodatabox" ELSE "idle"

\* line 565: where the call is after _lookup_route_aviation_edge returned
\* None, given the RapidAPI key: it has returned the empty tuple
AfterAviationEdgeMiss(key) == "idle"

AviationEdgeRequest ==
    /\ pc = "aviation_edge"
    /\ \E resp \in AviationEdgeResponses :
        LET c == Answered(
                   [call EXCEPT
                      !.requests.aviation_edge = @ + 1,
                      !.t429.aviation_edge =
                          IF resp.status = 429 THEN now ELSE @],
                   ResponseKind(resp, AviationEdgeAccepts(resp)))
        IN
        IF AviationEdgeAccepts(resp)
        THEN \E a1 \in AirportResponses, a2 \in AirportResponses :
             LET o == get_airport_details(airport_cache, resp.departure, a1)
                 d == get_airport_details(o.cache, resp.arrival, a2)
                 route == Route(resp.departure, resp.arrival, o.details[1],
                                d.details[1], o.details[2], d.details[2])
                 c2 == [c EXCEPT !.requests.airports =
                                     @ + o.requests + d.requests]
             IN
             /\ airport_cache' = d.cache
             /\ pc' = "idle"
             /\ IF route_database.kind = "list"
                THEN \* item assignment on a list raises TypeError, which
                     \* nothing catches
                     /\ call' = Finished(c2, "Raised", EmptyTuple)
                     /\ UNCHANGED <<route_database, database_file>>
                ELSE IF MayInsert(route_database, call.flight_number)
                THEN \E sv \in SaveOutcomes :
                     /\ route_database' =
                        DatabaseInsert(route_database, call.flight_number, route)
                     /\ database_file' =
                        save_route_database(database_file, route_database', sv)
                     /\ call' = Finished(
                           [c2 EXCEPT !.inserted = {call.flight_number}],
                           "FromProvider", RouteTuple(route))
                ELSE /\ call' = Finished(c2, "FromProvider", RouteTuple(route))
                     /\ UNCHANGED <<route_database, database_file>>
        ELSE \* anything else: next variant, or None after the last one
             /\ IF call.variant < Len(call.flight_numbers_to_try)
                THEN /\ call' = [c EXCEPT !.variant = @ + 1]
                     /\ pc' = pc
                ELSE /\ pc' = AfterAviationEdgeMiss(rapidapi_key)
                     /\ call' =
                          IF pc' = "idle"
                          THEN Finished(c, "NotFound", EmptyTuple)
                          ELSE [c EXCEPT !.variant = 1, !.endpoint = 1,
                                         !.endpoints = EndpointsToTry(FALSE),
                                         !.provider_calls = 2]
             /\ UNCHANGED <<airport_cache, route_database, database_file>>
    /\ UNCHANGED <<route_cache, route_cache_time, quota_exceeded,
                   quota_exceeded_until, quota_error_logged,
                   route_api_provider, aviation_edge_key, rapidapi_key,
                   now, ticks, loaded_kind, last_429>>
    /\ UNCHANGED outside

-----------------------------------------------------------------------------
(* STEP 3 with Aerodatabox: one request of the variant x endpoint loop *)

\* "continue" as it would be if it were a return of the empty tuple
NextEndpoint_GiveUp(c) == Finished(c, "NotFound", EmptyTuple)

\* "continue": the next endpoint, the next variant, or the final return
NextEndpoint(c) ==
    IF c.endpoint < c.endpoints
    THEN [c EXCEPT !.endpoint = @ + 1]
    ELSE IF c.variant < Len(c.flight_numbers_to_try)
    THEN [c EXCEPT !.variant = @ + 1, !.endpoint = 1]
    ELSE Finished(c, "NotFound", EmptyTuple)

AerodataboxRequest ==
    /\ pc = "aerodatabox"
    /\ \E resp \in AerodataboxResponses :
        LET fn_to_try == call.flight_numbers_to_try[call.variant]
            flight_number == call.flight_number
            route == AerodataboxRoute(resp)
            c == Answered([call EXCEPT !.requests.aerodatabox = @ + 1],
                          ResponseKind(resp, AerodataboxAccepts(route)))
        IN
        IF AerodataboxStatusClass(resp.status) = "quota"
        THEN /\ quota_exceeded' = TRUE
             /\ quota_exceeded_until' = now + QuotaCooldown
             /\ quota_error_logged' = TRUE
             /\ call' = Finished([c EXCEPT !.t429.aerodatabox = now],
                                 "NotFound", EmptyTuple)
             /\ pc' = "idle"
             /\ UNCHANGED <<route_cache, route_cache_time, route_database,
                            database_file>>
        ELSE IF /\ AerodataboxStatusClass(resp.status) = "parse"
                /\ resp.body = "flight"
                /\ AerodataboxAccepts(route)
        THEN /\ route_cache' = CachePut(route_cache, flight_number, route)
             /\ route_cache_time' =
                   CachePut(route_cache_time, flight_number, now)
             /\ IF route_database.kind = "list"
                THEN \* item assignment on a list raises TypeError inside
                     \* the try block: caught, the loop continues
                     /\ call' = NextEndpoint(c)
                     /\ pc' = IF call'.outcome = "none" THEN pc ELSE "idle"
                     /\ UNCHANGED <<route_database, database_file>>
                ELSE \E sv1 \in SaveOutcomes, sv2 \in SaveOutcomes :
                     LET ins1 == MayInsert(route_database, flight_number)
                         d1 == IF ins1
                               THEN DatabaseInsert(route_database,
                                                   flight_number, route)
                               ELSE route_database
                         f1 == IF ins1
                               THEN save_route_database(database_file, d1, sv1)
                               ELSE database_file
                         ins2 == /\ fn_to_try # flight_number
                                 /\ MayInsert(d1, fn_to_try)
                         d2 == IF ins2
                               THEN DatabaseInsert(d1, fn_to_try, route)
                               ELSE d1
                         f2 == IF ins2
                               THEN save_route_database(f1, d2, sv2)
                               ELSE f1
                     IN
                     /\ route_database' = d2
                     /\ database_file' = f2
                     /\ call' = Finished(
                           [c EXCEPT !.inserted =
                               (IF ins1 THEN {flight_number} ELSE {}) \cup
                               (IF ins2 THEN {fn_to_try} ELSE {})],
                           "FromProvider", RouteTuple(route))
                     /\ pc' = "idle"
             /\ UNCHANGED <<quota_exceeded, quota_exceeded_until,
                            quota_error_logged>>
        ELSE \* 204, another status, an exception, an unusable body or a
             \* flight without airports: continue
             /\ call' = NextEndpoint(c)
             /\ pc' = IF call'.outcome = "none" THEN pc ELSE "idle"
             /\ UNCHANGED <<route_cache, route_cache_time, route_database,
                            database_file, quota_exceeded,
                            quota_exceeded_until, quota_error_logged>>
    /\ UNCHANGED <<airport_cache, route_api_provider, aviation_edge_key,
                   rapidapi_key, now, ticks, loaded_kind, last_429>>
    /\ UNCHANGED outside

-----------------------------------------------------------------------------
(* Specification *)

Next ==
    \/ \E raw \in RawIds : lookup_flight_route(raw)
    \/ AviationEdgeRequest
    \/ AerodataboxRequest
    \/ Tick
    \/ Restart

Spec == Init /\ [][Next]_vars

-----------------------------------------------------------------------------
(* The variant list over drawn flight numbers: one call of                  *)
(* lookup_flight_route per behaviour, on a tracker that has just started    *)

DrawnInit ==
    /\ database_file \in {JsonDict(EK215 :> StoredA), JsonList}
    /\ \E c \in Configs :
          /\ route_api_provider = c[1]
          /\ aviation_edge_key = c[2]
          /\ rapidapi_key = c[3]
    /\ Constructed(database_file)
    /\ now = 0
    /\ ticks = 0
    /\ pc = "idle"
    /\ \E raw \in DrawnIds : call = [NoCall EXCEPT !.raw = raw]
    /\ loaded_kind = database_file.kind
    /\ last_429 = Never429
    /\ OutsideIdle

\* the one call, on the flight number drawn
LookupDrawn ==
    /\ call.outcome = "none"
    /\ call.flight_numbers_to_try = <<>>
    /\ lookup_flight_route(call.raw)

DrawnNext ==
    \/ LookupDrawn
    \/ AviationEdgeRequest
    \/ AerodataboxRequest

DrawnSpec == DrawnInit /\ [][DrawnNext]_vars

-----------------------------------------------------------------------------
(* The route database file, shared by the tracker and the builder script   *)
(* scripts/scrape_flight_routes.py (same data/flight_routes.json): the      *)
(* tracker at the grain of one discovery (insert and save), its death       *)
(* inside a save, and the builder's load, loop and saves                    *)

EK216 == <<"E","K","2","1","6">>

QR817 == <<"Q","R","8","1","7">>

\* an entry written by a later version of the program: the six route fields
\* and one more key
StoredExtra == ("airline" :> "Qatar Airways") @@ StoredB

\* flight numbers the tracker discovers in this specification
TrackerFlights == {UAE215, EK215}

\* generate_flight_list, cut down to three of its flight numbers
BuilderFlights == <<EK215, EK216, QR817>>

\* save_interval of build_database (main passes 50), scaled to the three
\* flight numbers
save_interval == 2

\* FlightRouteBuilder.load_database
load_database(file) ==
    IF file.kind \in {"dict", "list"} THEN file ELSE JsonDict(EmptyMap)

\* FlightRouteBuilder.save_database, with the outcomes of
\* _save_route_database
save_database(file, database, outcome) ==
    CASE outcome = "ok"           -> database
      [] outcome = "open_failed"  -> file
      [] outcome = "write_failed" -> CorruptFile

\* the file when the process dies inside the with block of
\* _save_route_database, after open(path, 'w') truncated it: part of the
\* text, or all of it when the last write had reached the disk
CrashedSave(database) == {CorruptFile, database}

FileInit ==
    /\ database_file \in {MissingFile, JsonDict(QR817 :> StoredExtra)}
    /\ route_api_provider = "aerodatabox"
    /\ aviation_edge_key = ""
    /\ rapidapi_key = "key"
    /\ Constructed(database_file)
    /\ now = 0
    /\ ticks = 0
    /\ pc = "idle"
    /\ call = NoCall
    /\ loaded_kind = database_file.kind
    /\ last_429 = Never429
    /\ OutsideIdle

\* a provider found a route for a flight number that is not in the route
\* database: insert and save
TrackerDiscovers ==
    /\ pc = "idle"
    /\ route_database.kind = "dict"
    /\ \E fn \in TrackerFlights, sv \in SaveOutcomes :
          /\ MayInsert(route_database, fn)
          /\ route_database' = DatabaseInsert(route_database, fn, StoredA)
          /\ database_file' =
                save_route_database(database_file, route_database', sv)
    /\ UNCHANGED <<pc, trackerRest, outside>>

\* the same, but the process dies while _save_route_database writes
TrackerCrashes ==
    /\ pc = "idle"
    /\ route_database.kind = "dict"
    /\ \E fn \in TrackerFlights :
          /\ MayInsert(route_database, fn)
          /\ route_database' = DatabaseInsert(route_database, fn, StoredA)
          /\ database_file' \in CrashedSave(route_database')
    /\ pc' = "down"
    /\ UNCHANGED <<trackerRest, outside>>

\* the tracker is started after it died
TrackerStart ==
    /\ pc = "down"
    /\ Reloaded
    /\ pc' = "idle"
    /\ UNCHANGED outside

\* FlightRouteBuilder.__init__: the database is loaded once
BuilderStart ==
    /\ builder.pc = "off"
    /\ builder' = [pc |-> "loop", i |-> 0,
                   database |-> load_database(database_file)]
    /\ UNCHANGED <<database_file, route_database, pc, trackerRest, notBuilder>>

\* one iteration of the loop of build_database
BuilderIteration ==
    /\ builder.pc = "loop"
    /\ builder.i < Len(BuilderFlights)
    /\ LET i == builder.i + 1
           flight_number == BuilderFlights[i]
       IN
       IF InDatabase(builder.database, flight_number)
       THEN \* already in the database: continue
            /\ builder' = [builder EXCEPT !.i = i]
            /\ UNCHANGED database_file
       ELSE \E found \in BOOLEAN :
            IF found /\ builder.database.kind = "list"
            THEN \* item assignment on a list raises TypeError: the script
                 \* ends without a save
                 /\ builder' = [builder EXCEPT !.i = i, !.pc = "dead"]
                 /\ UNCHANGED database_file
            ELSE LET database == IF found
                                 THEN DatabaseInsert(builder.database,
                                                     flight_number, StoredB)
                                 ELSE builder.database
                 IN
                 /\ builder' = [builder EXCEPT !.i = i, !.database = database]
                 /\ IF i % save_interval = 0
                    THEN \E sv \in SaveOutcomes :
                            database_file' =
                                save_database(database_file, database, sv)
                    ELSE UNCHANGED database_file
    /\ UNCHANGED <<route_database, pc, trackerRest, notBuilder>>

\* the final save of build_database
BuilderFinalSave ==
    /\ builder.pc = "loop"
    /\ builder.i = Len(BuilderFlights)
    /\ \E sv \in SaveOutcomes :
          database_file' = save_database(database_file, builder.database, sv)
    /\ builder' = [builder EXCEPT !.pc = "done"]
    /\ UNCHANGED <<route_database, pc, trackerRest, notBuilder>>

FileNext ==
    \/ TrackerDiscovers
    \/ TrackerCrashes
    \/ TrackerStart
    \/ BuilderStart
    \/ BuilderIteration
    \/ BuilderFinalSave

FileSpec == FileInit /\ [][FileNext]_vars

-----------------------------------------------------------------------------
(* lookup_flight_route called on one tracker from two threads of a host,    *)
(* with Aerodatabox as the provider: no statement of the method takes a     *)
(* lock, so the threads interleave between its statements.  Each thread     *)
(* makes one call.                                                          *)

\* what no step of a thread changes
threadFrame == <<airport_cache, route_api_provider, aviation_edge_key,
                 rapidapi_key, now, ticks, pc, call, loaded_kind, last_429,
                 notThreads>>

ThreadInit ==
    /\ database_file \in {MissingFile, JsonDict(EK215 :> StoredA)}
    /\ route_api_provider = "aerodatabox"
    /\ aviation_edge_key = ""
    /\ rapidapi_key = "key"
    /\ Constructed(database_file)
    /\ now = 0
    /\ ticks = 0
    /\ pc = "idle"
    /\ call = NoCall
    /\ loaded_kind = database_file.kind
    /\ last_429 = Never429
    /\ OutsideIdle

\* the thread's call has returned
ThreadReturned(th, outcome, result) ==
    [th EXCEPT !.pc = "done", !.c = Finished(th.c, outcome, result)]

\* after one key: the check of the next key, or the return of the route
NextKey(th) ==
    IF Len(th.keys) > 1
    THEN [th EXCEPT !.keys = Tail(@), !.pc = "check"]
    ELSE ThreadReturned([th EXCEPT !.keys = <<>>], "FromProvider",
                        RouteTuple(th.route))

\* the call is entered: database, cache and quota test in one step
ThreadEnter(t) ==
    /\ threads[t].pc = "idle"
    /\ \E raw \in RawIds :
       LET tries == VariantsOfId[raw]
           s == StoreHit(route_database, tries)
           h == CacheHit(route_cache, route_cache_time, tries, now)
           th == [threads[t] EXCEPT
                    !.c = [NoCall EXCEPT
                             !.raw = raw,
                             !.flight_number = NormalisedId[raw],
                             !.flight_numbers_to_try = tries,
                             !.blocked_start = quota_exceeded]]
       IN
       IF s > 0
       THEN /\ route_cache' = CachePut(route_cache, tries[s],
                                       route_database.entries[tries[s]])
            /\ route_cache_time' = CachePut(route_cache_time, tries[s], now)
            /\ threads' = [threads EXCEPT ![t] =
                  ThreadReturned(th, "FromStore",
                                 RouteTuple(route_database.entries[tries[s]]))]
            /\ UNCHANGED <<quota_exceeded, quota_error_logged>>
       ELSE IF h > 0
       THEN /\ threads' = [threads EXCEPT ![t] =
                  ThreadReturned(th, "FromCache",
                                 RouteTuple(route_cache[tries[h]]))]
            /\ UNCHANGED <<route_cache, route_cache_time, quota_exceeded,
                           quota_error_logged>>
       ELSE IF InCooldown(quota_exceeded, quota_exceeded_until, now)
       THEN /\ threads' = [threads EXCEPT ![t] =
                  ThreadReturned(th, "NotFound", EmptyTuple)]
            /\ UNCHANGED <<route_cache, route_cache_time, quota_exceeded,
                           quota_error_logged>>
       ELSE /\ quota_exceeded' = FALSE
            /\ quota_error_logged' =
                  IF quota_exceeded THEN FALSE ELSE quota_error_logged
            /\ threads' = [threads EXCEPT ![t] =
                  [th EXCEPT !.pc = "request",
                             !.c = [th.c EXCEPT
                                      !.variant = 1, !.endpoint = 1,
                                      !.endpoints = EndpointsToTry(FALSE),
                                      !.provider_calls = 1]]]
            /\ UNCHANGED <<route_cache, route_cache_time>>
    /\ UNCHANGED <<database_file, route_database, quota_exceeded_until>>
    /\ UNCHANGED threadFrame

\* one request of the variant x endpoint loop and the test of its answer
ThreadRequest(t) ==
    /\ threads[t].pc = "request"
    /\ \E resp \in AerodataboxResponses :
       LET th == threads[t]
           route == AerodataboxRoute(resp)
           c == Answered([th.c EXCEPT !.requests.aerodatabox = @ + 1],
                         ResponseKind(resp, AerodataboxAccepts(route)))
       IN
       IF AerodataboxStatusClass(resp.status) = "quota"
       THEN /\ quota_exceeded' = TRUE
            /\ quota_exceeded_until' = now + QuotaCooldown
            /\ quota_error_logged' = TRUE
            /\ threads' = [threads EXCEPT ![t] =
                  ThreadReturned([th EXCEPT !.c =
                                     [c EXCEPT !.t429.aerodatabox = now]],
                                 "NotFound", EmptyTuple)]
       ELSE IF /\ AerodataboxStatusClass(resp.status) = "parse"
               /\ resp.body = "flight"
               /\ AerodataboxAccepts(route)
       THEN /\ threads' = [threads EXCEPT ![t] =
                  [th EXCEPT !.pc = "cache", !.c = c, !.route = route]]
            /\ UNCHANGED <<quota_exceeded, quota_exceeded_until,
                           quota_error_logged>>
       ELSE /\ threads' = [threads EXCEPT ![t] =
                  IF NextEndpoint(c).outcome = "none"
                  THEN [th EXCEPT !.c = NextEndpoint(c)]
                  ELSE ThreadReturned([th EXCEPT !.c = c], "NotFound",
                                      EmptyTuple)]
            /\ UNCHANGED <<quota_exceeded, quota_exceeded_until,
                           quota_error_logged>>
    /\ UNCHANGED <<database_file, route_database, route_cache,
                   route_cache_time>>
    /\ UNCHANGED threadFrame

\* the route goes into the cache under the flight number of the call
ThreadWriteCache(t) ==
    /\ threads[t].pc = "cache"
    /\ LET th == threads[t]
           flight_number == th.c.flight_number
           fn_to_try == th.c.flight_numbers_to_try[th.c.variant]
       IN
       /\ route_cache' = CachePut(route_cache, flight_number, th.route)
       /\ route_cache_time' = CachePut(route_cache_time, flight_number, now)
       /\ threads' = [threads EXCEPT ![t] =
             [th EXCEPT !.pc = "check",
                        !.keys = IF fn_to_try # flight_number
                                 THEN <<flight_number, fn_to_try>>
                                 ELSE <<flight_number>>]]
    /\ UNCHANGED <<database_file, route_database, quota_exceeded,
                   quota_exceeded_until, quota_error_logged>>
    /\ UNCHANGED threadFrame

\* "if ... not in self.route_database"
ThreadCheck(t) ==
    /\ threads[t].pc = "check"
    /\ threads' = [threads EXCEPT ![t] =
          IF MayInsert(route_database, Head(threads[t].keys))
          THEN [threads[t] EXCEPT !.pc = "insert"]
          ELSE NextKey(threads[t])]
    /\ UNCHANGED <<database_file, route_database, route_cache,
                   route_cache_time, quota_exceeded, quota_exceeded_until,
                   quota_error_logged>>
    /\ UNCHANGED threadFrame

\* "self.route_database[...] = {...}"
ThreadInsert(t) ==
    /\ threads[t].pc = "insert"
    /\ route_database' = DatabaseInsert(route_database, Head(threads[t].keys),
                                        threads[t].route)
    /\ threads' = [threads EXCEPT ![t] =
          [threads[t] EXCEPT !.c.inserted = @ \cup {Head(threads[t].keys)},
                             !.pc = "open"]]
    /\ UNCHANGED <<database_file, route_cache, route_cache_time,
                   quota_exceeded, quota_exceeded_until, quota_error_logged>>
    /\ UNCHANGED threadFrame

\* _save_route_database up to open(path, 'w'): the file is truncated, or
\* mkdir or open raises and the save is over
ThreadOpen(t) ==
    /\ threads[t].pc = "open"
    /\ \/ /\ database_file' = CorruptFile
          /\ threads' = [threads EXCEPT ![t] =
                [threads[t] EXCEPT !.pc = "dump"]]
       \/ /\ UNCHANGED database_file
          /\ threads' = [threads EXCEPT ![t] = NextKey(threads[t])]
    /\ UNCHANGED <<route_database, route_cache, route_cache_time,
                   quota_exceeded, quota_exceeded_until, quota_error_logged>>
    /\ UNCHANGED threadFrame

\* json.dump of the route database as it is now and the end of the with
\* block: the whole text, or part of it when json.dump raises or another
\* thread writes the same file at the same time
ThreadDump(t) ==
    /\ threads[t].pc = "dump"
    /\ \/ database_file' = route_database
       \/ database_file' = CorruptFile
    /\ threads' = [threads EXCEPT ![t] = NextKey(threads[t])]
    /\ UNCHANGED <<route_database, route_cache, route_cache_time,
                   quota_exceeded, quota_exceeded_until, quota_error_logged>>
    /\ UNCHANGED threadFrame

ThreadNext ==
    \E t \in Threads :
        \/ ThreadEnter(t)
        \/ ThreadRequest(t)
        \/ ThreadWriteCache(t)
        \/ ThreadCheck(t)
        \/ ThreadInsert(t)
        \/ ThreadOpen(t)
        \/ ThreadDump(t)

ThreadSpec == ThreadInit /\ [][ThreadNext]_vars

-----------------------------------------------------------------------------
(* web_controller.py: the Flask routes start, stop, stop_all and            *)
(* clear_display with start_mode and stop_active_mode, served by the        *)
(* request threads of the web server, which interleave between the          *)
(* statements that read and write the globals active_process and            *)
(* active_mode                                                              *)

VALID_MODES ==
    {"clock", "weather", "time_weather_calendar", "flight_tracker", "text"}

\* the mode names of the requests of the model
Modes == {"clock", "text", "bogus"}

Operations == {"start", "stop", "stop_all", "clear"}

webFrame == <<database_file, route_database, pc, trackerRest, notWeb>>

\* a request arrives and its route runs up to its first call of start_mode
\* or stop_active_mode, or returns 400
Receive(h) ==
    /\ handlers[h].pc = "idle"
    /\ \E op \in Operations, mode \in Modes :
          handlers' = [handlers EXCEPT ![h] =
             CASE op = "start" ->
                    IF mode \in VALID_MODES
                    THEN [pc |-> "start_check", op |-> op, mode |-> mode,
                          ret |-> "idle"]
                    ELSE HandlerIdle
               [] op = "stop" ->
                    IF mode \in VALID_MODES /\ active_mode = mode
                    THEN [pc |-> "stop_check", op |-> op, mode |-> mode,
                          ret |-> "idle"]
                    ELSE HandlerIdle
               [] op = "stop_all" ->
                    IF active_process # NoProcess
                    THEN [pc |-> "stop_check", op |-> op, mode |-> "None",
                          ret |-> "idle"]
                    ELSE HandlerIdle
               [] op = "clear" ->
                    [pc |-> "stop_check", op |-> op, mode |-> "None",
                     ret |-> "idle"]]
    /\ UNCHANGED <<active_process, active_mode, children, spawned>>
    /\ UNCHANGED webFrame

\* start_mode: "if active_process is not None: stop_active_mode()"
StartCheck(h) ==
    /\ handlers[h].pc = "start_check"
    /\ handlers' = [handlers EXCEPT ![h] =
          IF active_process # NoProcess
          THEN [@ EXCEPT !.pc = "stop_check", !.ret = "popen"]
          ELSE [@ EXCEPT !.pc = "popen"]]
    /\ UNCHANGED <<active_process, active_mode, children, spawned>>
    /\ UNCHANGED webFrame

\* stop_active_mode: "if active_process is not None"
StopCheck(h) ==
    /\ handlers[h].pc = "stop_check"
    /\ handlers' = [handlers EXCEPT ![h] =
          IF active_process # NoProcess
          THEN [@ EXCEPT !.pc = "pkill"]
          ELSE [@ EXCEPT !.pc = "clear"]]
    /\ UNCHANGED <<active_process, active_mode, children, spawned>>
    /\ UNCHANGED webFrame

\* sudo pkill -f "python3.*main.py": every display process is killed
Pkill(h) ==
    /\ handlers[h].pc = "pkill"
    /\ children' = {}
    /\ handlers' = [handlers EXCEPT ![h] = [@ EXCEPT !.pc = "wait"]]
    /\ UNCHANGED <<active_process, active_mode, spawned>>
    /\ UNCHANGED webFrame

\* active_process.wait(...) and the finally block; when another thread has
\* set active_process to None meanwhile, the wait raises AttributeError,
\* the finally block runs and the request ends with the error
Wait(h) ==
    /\ handlers[h].pc = "wait"
    /\ active_process' = NoProcess
    /\ active_mode' = "None"
    /\ handlers' = [handlers EXCEPT ![h] =
          IF active_process = NoProcess
          THEN HandlerIdle
          ELSE [@ EXCEPT !.pc = "clear"]]
    /\ UNCHANGED <<children, spawned>>
    /\ UNCHANGED webFrame

\* the display is cleared by a short-lived helper process, and
\* stop_active_mode returns: into start_mode, or to the end of the request
ClearDisplay(h) ==
    /\ handlers[h].pc = "clear"
    /\ handlers' = [handlers EXCEPT ![h] =
          IF @.ret = "popen"
          THEN [@ EXCEPT !.pc = "popen", !.ret = "idle"]
          ELSE HandlerIdle]
    /\ UNCHANGED <<active_process, active_mode, children, spawned>>
    /\ UNCHANGED webFrame

\* "active_process = subprocess.Popen(...)", or the except block when
\* opening the log file or Popen raises
Popen(h) ==
    /\ handlers[h].pc = "popen"
    /\ \/ /\ spawned < MaxSpawn
          /\ spawned' = spawned + 1
          /\ children' = children \cup {spawned'}
          /\ active_process' = spawned'
          /\ handlers' = [handlers EXCEPT ![h] = [@ EXCEPT !.pc = "set_mode"]]
          /\ UNCHANGED active_mode
       \/ /\ active_process' = NoProcess
          /\ active_mode' = "None"
          /\ handlers' = [handlers EXCEPT ![h] = HandlerIdle]
          /\ UNCHANGED <<children, spawned>>
    /\ UNCHANGED webFrame

\* "active_mode = mode" and the return of start_mode
SetMode(h) ==
    /\ handlers[h].pc = "set_mode"
    /\ active_mode' = handlers[h].mode
    /\ handlers' = [handlers EXCEPT ![h] = HandlerIdle]
    /\ UNCHANGED <<active_process, children, spawned>>
    /\ UNCHANGED webFrame

\* a display process ends by itself
ChildExits ==
    /\ \E p \in children : children' = children \ {p}
    /\ UNCHANGED <<active_process, active_mode, spawned, handlers>>
    /\ UNCHANGED webFrame

WebInit ==
    /\ database_file = MissingFile
    /\ route_api_provider = "aerodatabox"
    /\ aviation_edge_key = ""
    /\ rapidapi_key = "key"
    /\ Constructed(database_file)
    /\ now = 0
    /\ ticks = 0
    /\ pc = "idle"
    /\ call = NoCall
    /\ loaded_kind = database_file.kind
    /\ last_429 = Never429
    /\ OutsideIdle

WebNext ==
    \/ \E h \in Handlers :
          \/ Receive(h)
          \/ StartCheck(h)
          \/ StopCheck(h)
          \/ Pkill(h)
          \/ Wait(h)
          \/ ClearDisplay(h)
          \/ Popen(h)
          \/ SetMode(h)
    \/ ChildExits

WebSpec == WebInit /\ [][WebNext]_vars

-----------------------------------------------------------------------------
(* The polling of flights: update_flights, fetch_flights and                *)
(* _log_error_once as the loop of run() calls them.  The clock starts far   *)
(* from zero, as time.time() does.                                          *)

update_interval == 30

error_cooldown == 60

min_request_interval == 1

\* time.time() when the tracker starts: beyond every interval of the code
StartTime == 2 * error_cooldown

\* time that passes between two calls of update_flights
PollSteps == {min_request_interval, update_interval}

\* what fetch_flights_rapidapi / fetch_flights_adsbexchange return: None,
\* the empty list, or a list with the closest flight
Fetches == {"failed", "empty", "flights"}

Callsigns == {"EK215", "QR817"}

pollFrame == <<database_file, route_database, pc, route_cache,
               route_cache_time, quota_exceeded, quota_exceeded_until,
               quota_error_logged, airport_cache, route_api_provider,
               aviation_edge_key, rapidapi_key, call, loaded_kind, last_429,
               notPoll>>

\* update_flights: the interval it waits for since last_update
effective_interval(failures) ==
    IF failures > 3 THEN update_interval * 2 ELSE update_interval

\* _log_error_once prints, and counts, when the last print is
\* error_cooldown or more ago
Logs(current_time, last_error) == current_time - last_error >= error_cooldown

PollInit ==
    /\ database_file = MissingFile
    /\ route_api_provider = "aerodatabox"
    /\ aviation_edge_key = ""
    /\ rapidapi_key = "key"
    /\ Constructed(database_file)
    /\ now = StartTime
    /\ ticks = 0
    /\ pc = "idle"
    /\ call = NoCall
    /\ loaded_kind = database_file.kind
    /\ last_429 = Never429
    /\ OutsideIdle

\* time passes in the loop of run()
PollTick ==
    /\ ticks < MaxPolls
    /\ \E d \in PollSteps : now' = now + d
    /\ ticks' = ticks + 1
    /\ poll' = [poll EXCEPT !.fetched = "none"]
    /\ UNCHANGED <<consecutive_failures, last_error_time, last_update,
                   last_seen_flight>>
    /\ UNCHANGED pollFrame

\* one call of update_flights, with fetch_flights inside it
update_flights ==
    /\ poll.fetched = "none"
    /\ \E force \in BOOLEAN, fetch \in Fetches, callsign \in Callsigns :
       LET current_time == now IN
       IF force \/ current_time - last_update
                      >= effective_interval(consecutive_failures)
       THEN IF fetch = "failed"
            THEN /\ consecutive_failures' =
                       IF Logs(current_time, last_error_time)
                       THEN consecutive_failures + 2
                       ELSE consecutive_failures + 1
                 /\ last_error_time' =
                       IF Logs(current_time, last_error_time)
                       THEN current_time ELSE last_error_time
                 /\ poll' = [fetched |-> "failed",
                             failed_in_a_row |-> poll.failed_in_a_row + 1]
                 /\ UNCHANGED <<last_update, last_seen_flight>>
            ELSE /\ consecutive_failures' = 0
                 /\ last_update' = current_time
                 /\ last_seen_flight' =
                       IF fetch = "flights"
                       THEN [callsign |-> callsign, seen_at |-> current_time]
                       ELSE last_seen_flight
                 /\ poll' = [fetched |-> fetch, failed_in_a_row |-> 0]
                 /\ UNCHANGED last_error_time
       ELSE /\ poll' = [poll EXCEPT !.fetched = "skipped"]
            /\ UNCHANGED <<consecutive_failures, last_error_time,
                           last_update, last_seen_flight>>
    /\ UNCHANGED <<now, ticks>>
    /\ UNCHANGED pollFrame

PollNext ==
    \/ PollTick
    \/ update_flights

PollSpec == PollInit /\ [][PollNext]_vars

-----------------------------------------------------------------------------
(* Properties *)

NoRequests == [aviation_edge |-> 0, aerodatabox |-> 0, airports |-> 0]

Returned == pc = "idle" /\ call.outcome # "none"

Providers == {"aviation_edge", "aerodatabox"}

\* a key for the provider is configured
HasKey(p) ==
    IF p = "aviation_edge" THEN aviation_edge_key # "" ELSE rapidapi_key # ""

Complete(route_data) ==
    Get(route_data, "origin") # "" /\ Get(route_data, "destination") # ""

\* C1: a call for an identifier one of whose variants is a key of the route
\* database returns at once with the record stored under one of its variants
\* and has sent no request to any provider, whatever the cache, the quota
\* flag and the provider configuration are.
C1_StoreHitNoRequests ==
    call.in_store =>
        /\ Returned
        /\ call.outcome = "FromStore"
        /\ call.requests = NoRequests
        /\ call.via \in DOMAIN route_database.entries
        /\ \E i \in 1..Len(call.flight_numbers_to_try) :
              call.flight_numbers_to_try[i] = call.via
        /\ call.result = RouteTuple(route_database.entries[call.via])

\* the database is hit through the ICAO->IATA translation
C1_Witness ==
    /\ Returned /\ call.in_store /\ call.outcome = "FromStore"
    /\ Len(call.flight_numbers_to_try) = 2
    /\ call.via = call.flight_numbers_to_try[2]

C3_BlockedProviderSkipped ==
    \A p \in Providers :
        (last_429[p] >= 0 /\ call.started < last_429[p] + QuotaCooldown)
            => call.requests[p] = 0

\* C4 (as claimed): when a provider answers 429 and the call ends without a
\* route, every other configured provider that is not in its own cool-down
\* has been tried in that call.
C4_QuotaIsolation ==
    \A a \in Providers, b \in Providers :
        ( /\ a # b
          /\ Returned /\ call.outcome = "NotFound"
          /\ call.t429[a] >= 0
          /\ HasKey(b)
          /\ b = "aerodatabox" =>
                ~InCooldown(quota_exceeded, quota_exceeded_until, now) )
        => call.requests[b] > 0

\* C5: while a tracker runs, a key of the route database is never removed
\* and the record stored under it never changes.
C5_FirstWriterWins ==
    [][ (~Restart) =>
          \A k \in DOMAIN route_database.entries :
              /\ k \in DOMAIN route_database'.entries
              /\ route_database'.entries[k] = route_database.entries[k] ]_vars

\* a discovery was just recorded next to an older entry that holds another
\* record
C5_Witness ==
    /\ Returned /\ call.inserted # {}
    /\ \E k \in DOMAIN route_database.entries \ call.inserted :
          \E n \in call.inserted :
              route_database.entries[k] # route_database.entries[n]

\* C6 (as claimed): every record in the route cache, in the route database
\* and in the database file has both origin and destination.
C6_OnlyCompleteRecords ==
    /\ \A k \in DOMAIN route_cache : Complete(route_cache[k])
    /\ \A k \in DOMAIN route_database.entries :
          Complete(route_database.entries[k])
    /\ \A k \in DOMAIN database_file.entries :
          Complete(database_file.entries[k])

\* C7: a call answered from the cache returns an entry inserted at most
\* 3600 seconds before (never one that is 3601 seconds old or older), and a
\* call that finds only expired cache entries but a stored variant is still
\* answered from the route database.
C7_CacheExpiry ==
    /\ (Returned /\ call.outcome = "FromCache") =>
          /\ call.via \in DOMAIN route_cache
          /\ now - route_cache_time[call.via] < route_cache_ttl + 1
          /\ call.result = RouteTuple(route_cache[call.via])
    /\ (call.expired_seen /\ call.in_store) =>
          (Returned /\ call.outcome = "FromStore")

\* a call found an expired cache entry, did not use it and went on to the
\* provider
C7_Witness ==
    /\ call.expired_seen /\ ~call.in_store
    /\ call.provider_calls = 1

\* C8 (as claimed): when a call that inserted a key returns, the file holds
\* exactly the in-memory route database.
C8_FileEqualsDatabase ==
    (Returned /\ call.inserted # {}) => database_file = route_database

\* C9 (as claimed): a tracker that found corrupt JSON on disk does not go
\* on with an empty database and write it over the file.
C9_CorruptFileKept ==
    ~(loaded_kind = "corrupt" /\ database_file.kind = "dict")

\* C10 (as claimed): lookup_flight_route never ends with an exception.
C10_NeverRaises == call.outcome # "Raised"

\* the call that has just returned, or is still running, started with an
\* empty route database and an empty cache and has had HTTP 204 for every
\* request it sent
OnlyNoContent(c) == c.empty_start /\ c.only204

\* the same of a call that has reached the provider and may not have sent
\* its first request yet
NoContentSoFar(c) ==
    /\ c.empty_start /\ c.provider_calls = 1
    /\ c.last = "none" \/ c.only204

\* C11 (as claimed): a call that starts with an empty database and an empty
\* cache and gets HTTP 204 for every request returns the empty tuple and
\* leaves the cache, its timestamps, the route database, the file and the
\* whole quota state (flag, warned flag, deadline) as they were.
C11_NoContentChangesNothing ==
    /\ [] ( (Returned /\ OnlyNoContent(call)) =>
              /\ call.outcome = "NotFound"
              /\ call.result = EmptyTuple
              /\ quota_exceeded = call.blocked_start
              /\ quota_error_logged = call.blocked_start )
    /\ [][ NoContentSoFar(call') =>
              UNCHANGED <<route_cache, route_cache_time, route_database,
                          database_file, quota_exceeded_until>> ]_vars

\* C11 (amended): as above, except that the two quota flags are left down:
\* they are unchanged when they were down, and cleared when the call starts
\* at or after the deadline of an earlier cool-down (the deadline itself
\* stays).
C11_NoContentClearsOnlyExpiredCooldown ==
    /\ [] ( (Returned /\ OnlyNoContent(call)) =>
              /\ call.outcome = "NotFound"
              /\ call.result = EmptyTuple
              /\ quota_exceeded =
                    (call.blocked_start /\ call.started < quota_exceeded_until)
              /\ quota_error_logged =
                    (call.blocked_start /\ call.started < quota_exceeded_until) )
    /\ [][ NoContentSoFar(call') =>
              UNCHANGED <<route_cache, route_cache_time, route_database,
                          database_file, quota_exceeded_until>> ]_vars

\* every endpoint of both variants answered 204, in a call that began by
\* clearing an expired cool-down
C11_Witness ==
    /\ Returned /\ OnlyNoContent(call)
    /\ call.blocked_start
    /\ call.requests.aerodatabox = 6

\* C12 (as claimed): when a call has returned the empty tuple and the next
\* call is for the same identifier, with a provider configured and not in
\* cool-down, that call gets past the database and the cache and enters a
\* provider adapter.
C12_NotFoundIsRetried ==
    [][ ( /\ Returned /\ call.outcome = "NotFound"
          /\ call'.raw = call.raw
          /\ \/ UseAviationEdge(route_api_provider, aviation_edge_key)
             \/ /\ rapidapi_key # ""
                /\ ~InCooldown(quota_exceeded, quota_exceeded_until, now) )
        => /\ pc' \in {"aviation_edge", "aerodatabox"}
           /\ call'.provider_calls = 1 ]_vars

\* r is a run of one or more digits, with or without one capital letter
\* after it
DigitsThenLetter(r) ==
    \E k \in 1..Len(r) :
        /\ \A i \in 1..k : r[i] \in Digits
        /\ \/ k = Len(r)
           \/ k = Len(r) - 1 /\ r[Len(r)] \in UpperLetters

\* n is a 3-letter code of the ICAO_TO_IATA table followed by digits and an
\* optional letter
IcaoFlightNumber(n) ==
    /\ Len(n) > 3
    /\ SubSeq(n, 1, 3) \in DOMAIN ICAO_TO_IATA
    /\ DigitsThenLetter(Drop(n, 3))

\* the variant list of the call has been computed
Expanded == call.flight_numbers_to_try # <<>>

\* C13: for every identifier whose trimmed, upper-cased form is a 3-letter
\* code of the table followed by digits and an optional single letter, the
\* variant list is exactly that form followed by the same with the code
\* replaced by its IATA code.
C13_IcaoPrefixTwoVariants ==
    LET n == Normalise(call.raw)
    IN  (Expanded /\ IcaoFlightNumber(n)) =>
            call.flight_numbers_to_try =
                <<n, ICAO_TO_IATA[SubSeq(n, 1, 3)] \o Drop(n, 3)>>

\* a mixed-case identifier with blanks around it and a letter after the
\* digits got its two variants
C13_Witness ==
    /\ Expanded /\ Returned
    /\ IcaoFlightNumber(Normalise(call.raw))
    /\ call.raw # Normalise(call.raw)
    /\ Head(call.raw) \in Whitespace
    /\ Len(call.flight_numbers_to_try) = 2
    /\ call.flight_numbers_to_try[2][Len(call.flight_numbers_to_try[2])]
          \in UpperLetters

\* C14 (as claimed): for every other identifier (one that does not parse,
\* or parses with a 2-letter code or with a 3-letter code that is not in the
\* table) the variant list is the trimmed, upper-cased identifier alone, and
\* the call goes through its tiers without raising.
C14_OtherIdsSingleVariant ==
    LET n == Normalise(call.raw)
    IN  (Expanded /\ ~IcaoFlightNumber(n)) =>
            /\ call.flight_numbers_to_try = <<n>>
            /\ call.outcome # "Raised"

\* C15: a call answered from the route database returns the record stored
\* under the first of its variants that is a key; for "uae215" that is the
\* record under EK215 when UAE215 is not stored and the record under UAE215
\* when both are.
C15_FirstStoredVariantWins ==
    (Returned /\ call.in_store) =>
        LET tries == call.flight_numbers_to_try
            entries == route_database.entries
        IN  /\ \E i \in 1..Len(tries) :
                  /\ tries[i] \in DOMAIN entries
                  /\ \A j \in 1..(i - 1) : tries[j] \notin DOMAIN entries
                  /\ call.result = RouteTuple(entries[tries[i]])
            /\ call.flight_number = UAE215 =>
                  call.result =
                      IF UAE215 \in DOMAIN entries
                      THEN RouteTuple(entries[UAE215])
                      ELSE RouteTuple(entries[EK215])

\* "uae215" was answered with the record under UAE215 while EK215 holds a
\* different one
C15_Witness ==
    /\ Returned /\ call.in_store
    /\ call.flight_number = UAE215
    /\ {UAE215, EK215} \subseteq DOMAIN route_database.entries
    /\ route_database.entries[UAE215] # route_database.entries[EK215]
    /\ call.result = RouteTuple(route_database.entries[UAE215])

\* C16 (as claimed): when a call returns a complete record that a provider
\* gave for some variant, the cache holds that record under the normalised
\* identifier with the current time, the route database has the normalised
\* identifier as a key and also the variant that matched; for either
\* provider.
C16_ProviderHitWrittenThrough ==
    [][ ( /\ pc # "idle"
          /\ call'.outcome = "FromProvider"
          /\ call'.result[1] # "" /\ call'.result[2] # "" )
        => LET fn == call.flight_number
               matched == call.flight_numbers_to_try[call.variant]
           IN  /\ fn \in DOMAIN route_cache'
               /\ RouteTuple(route_cache'[fn]) = call'.result
               /\ route_cache_time'[fn] = now
               /\ fn \in DOMAIN route_database'.entries
               /\ matched \in DOMAIN route_database'.entries ]_vars

\* C17: while Aviation Edge is the configured provider and has a key, no
\* request goes to Aerodatabox and its loop is never entered, whatever the
\* RapidAPI key is; a call whose Aviation Edge lookup ended without an
\* accepted flight returns the empty tuple.
C17_PrimaryShortCircuits ==
    UseAviationEdge(route_api_provider, aviation_edge_key) =>
        /\ call.requests.aerodatabox = 0
        /\ pc # "aerodatabox"
        /\ (Returned /\ call.provider_calls > 0 /\ call.last # "found") =>
              /\ call.provider_calls = 1
              /\ call.outcome = "NotFound"
              /\ call.result = EmptyTuple

\* both variants failed at Aviation Edge and the call returned, with a
\* RapidAPI key configured
C17_Witness ==
    /\ UseAviationEdge(route_api_provider, aviation_edge_key)
    /\ rapidapi_key # ""
    /\ Returned /\ call.outcome = "NotFound"
    /\ call.requests.aviation_edge = 2
    /\ call.last = "transient"

\* the call is past the database and the cache and Aerodatabox is the
\* provider in use
AtAerodataboxTier ==
    /\ call.raw # <<>>
    /\ ~call.in_store /\ call.outcome # "FromCache"
    /\ ~UseAviationEdge(route_api_provider, aviation_edge_key)
    /\ rapidapi_key # ""

\* C18: a call that gets to the Aerodatabox tier 24 hours or more after the
\* latest 429 of an earlier call is not turned away: it enters the request
\* loop and sends requests, and the two quota flags are down unless this
\* very call gets a 429 again.
C18_CooldownEnds ==
    ( /\ AtAerodataboxTier
      /\ last_429.aerodatabox >= 0
      /\ call.started >= last_429.aerodatabox + QuotaCooldown )
    => /\ call.provider_calls = 1
       /\ pc = "aerodatabox" \/ call.requests.aerodatabox > 0
       /\ call.t429.aerodatabox < 0 =>
              ~quota_exceeded /\ ~quota_error_logged

\* a call that started with the flag up, exactly 24 hours after the 429,
\* and got a route from Aerodatabox
C18_Witness ==
    /\ AtAerodataboxTier /\ Returned
    /\ call.blocked_start
    /\ call.started = last_429.aerodatabox + QuotaCooldown
    /\ call.outcome = "FromProvider"
    /\ ~quota_exceeded

\* C19 (as claimed): once a provider has answered 429 in a call, that call
\* sends it no further request, and the step that receives the 429 writes
\* neither cache nor route database nor file.
C19_NoRequestAfter429 ==
    [][ /\ \A p \in Providers :
              (pc # "idle" /\ call.t429[p] >= 0) =>
                  call'.requests[p] = call.requests[p]
        /\ (pc # "idle" /\ call'.last = "429") =>
              UNCHANGED <<route_cache, route_cache_time, route_database,
                          database_file>> ]_vars

\* C20: a request that fails transiently (exception, status other than
\* 200/204/429, unusable body) changes neither the quota state nor the
\* cache, the route database or the file; the call goes on when a variant
\* is left, and otherwise returns the empty tuple.
C20_TransientFailureContinues ==
    [][ (pc # "idle" /\ call'.last = "transient") =>
          /\ UNCHANGED <<route_cache, route_cache_time, route_database,
                         database_file, quota_exceeded, quota_exceeded_until,
                         quota_error_logged>>
          /\ call'.t429 = call.t429
          /\ call.variant < Len(call.flight_numbers_to_try) =>
                /\ pc' = pc
                /\ call'.outcome = "none"
                /\ call'.variant \in {call.variant, call.variant + 1}
          /\ call'.outcome \in {"none", "NotFound"} ]_vars

\* the last endpoint of the first variant failed transiently and the
\* Aerodatabox loop is at the second variant
C20_Witness ==
    /\ pc = "aerodatabox"
    /\ call.last = "transient"
    /\ call.variant = 2 /\ call.endpoint = 1

\* C21 (as claimed): a call sends each provider at most one route request
\* per flight number of flight_numbers_to_try, so at most two per provider.
C21_OneRequestPerVariant ==
    \A p \in Providers :
        /\ call.requests[p] <= Len(call.flight_numbers_to_try)
        /\ call.requests[p] <= 2

\* C22: the route database comes before the cache and the providers: a call
\* one of whose flight numbers is a key of the route database returns the
\* record stored under the first such flight number, whatever the cache
\* holds, without a request; it sets the cache entry of that flight number
\* to the stored record and its cache time to now, and changes no other
\* cache entry, no entry of the route database and not the file.
C22_StoreBeforeCache ==
    [][ LET tries == call'.flight_numbers_to_try IN
        ( /\ pc = "idle" /\ call'.raw # <<>>
          /\ \E i \in 1..Len(tries) : InDatabase(route_database, tries[i]) )
        => \E i \in 1..Len(tries) :
             /\ InDatabase(route_database, tries[i])
             /\ \A j \in 1..(i - 1) : ~InDatabase(route_database, tries[j])
             /\ pc' = "idle" /\ call'.outcome = "FromStore"
             /\ call'.result = RouteTuple(route_database.entries[tries[i]])
             /\ call'.requests = NoRequests
             /\ DOMAIN route_cache' = DOMAIN route_cache \cup {tries[i]}
             /\ DOMAIN route_cache_time' =
                   DOMAIN route_cache_time \cup {tries[i]}
             /\ route_cache'[tries[i]] = route_database.entries[tries[i]]
             /\ route_cache_time'[tries[i]] = now
             /\ \A k \in DOMAIN route_cache \ {tries[i]} :
                   route_cache'[k] = route_cache[k]
             /\ \A k \in DOMAIN route_cache_time \ {tries[i]} :
                   route_cache_time'[k] = route_cache_time[k]
             /\ UNCHANGED <<route_database, database_file>> ]_vars

\* a database hit under the first flight number while the cache holds an
\* unexpired, different record under the second
C22_Witness ==
    /\ Returned /\ call.outcome = "FromStore"
    /\ Len(call.flight_numbers_to_try) = 2
    /\ call.via = call.flight_numbers_to_try[1]
    /\ LET other == call.flight_numbers_to_try[2] IN
         /\ CacheFresh(route_cache, route_cache_time, other, now)
         /\ route_cache[other] # route_cache[call.via]
         /\ RouteTuple(route_cache[other]) # call.result

\* C23: a call none of whose flight numbers is in the route database and
\* one of whose flight numbers has an unexpired cache entry returns the
\* cached record of the first such flight number, skipping expired entries
\* of earlier ones, without a request and without a change to the cache;
\* and no step of a running tracker removes a cache entry, expired or not.
C23_CacheHitAnyVariant ==
    [][ LET tries == call'.flight_numbers_to_try IN
        /\ ( /\ pc = "idle" /\ call'.raw # <<>>
             /\ \A i \in 1..Len(tries) : ~InDatabase(route_database, tries[i])
             /\ \E i \in 1..Len(tries) :
                   CacheFresh(route_cache, route_cache_time, tries[i], now) )
           => \E i \in 1..Len(tries) :
                /\ CacheFresh(route_cache, route_cache_time, tries[i], now)
                /\ \A j \in 1..(i - 1) :
                      ~CacheFresh(route_cache, route_cache_time, tries[j], now)
                /\ pc' = "idle" /\ call'.outcome = "FromCache"
                /\ call'.result = RouteTuple(route_cache[tries[i]])
                /\ call'.requests = NoRequests
                /\ UNCHANGED <<route_cache, route_cache_time>>
        /\ (~Restart) =>
              /\ DOMAIN route_cache \subseteq DOMAIN route_cache'
              /\ DOMAIN route_cache_time \subseteq DOMAIN route_cache_time'
      ]_vars

\* the first flight number has an expired cache entry, the second an
\* unexpired one, and the call returned the second one's record
C23_Witness ==
    /\ Returned /\ call.outcome = "FromCache"
    /\ Len(call.flight_numbers_to_try) = 2
    /\ call.via = call.flight_numbers_to_try[2]
    /\ call.flight_numbers_to_try[1] \in DOMAIN route_cache
    /\ now - route_cache_time[call.flight_numbers_to_try[1]] >= route_cache_ttl
    /\ call.result = RouteTuple(route_cache[call.via])
    /\ call.requests = NoRequests

\* C24 (as claimed): when the tracker dies while it rewrites the route
\* database file, the file is still a loadable JSON object afterwards and
\* holds every entry it held when the rewrite started, unchanged.
C24_CrashKeepsPersisted ==
    [][ (pc = "idle" /\ pc' = "down") =>
          /\ database_file.kind = "dict" => database_file'.kind = "dict"
          /\ \A k \in DOMAIN database_file.entries :
                /\ k \in DOMAIN database_file'.entries
                /\ database_file'.entries[k] = database_file.entries[k] ]_vars

\* C25 (as claimed): with the builder script running next to the tracker,
\* no write of either one removes or replaces an entry of the file: every
\* step that leaves a JSON object in the file keeps every entry the file
\* held.
C25_NoEntryLost ==
    [][ database_file'.kind = "dict" =>
          \A k \in DOMAIN database_file.entries :
              /\ k \in DOMAIN database_file'.entries
              /\ database_file'.entries[k] = database_file.entries[k] ]_vars

\* a stored dict has keys beyond the six route fields
HasExtraKeys(route_data) ==
    ~(DOMAIN route_data \subseteq DOMAIN StoredA)

\* C28 (as claimed): a rewrite of the file by a discovery of the tracker
\* leaves every entry of the file that carries extra keys in the file, with
\* its extra keys and values.
C28_ExtraKeysKept ==
    [][ (pc = "idle" /\ pc' = "idle" /\ route_database' # route_database) =>
          \A k \in DOMAIN database_file.entries :
              HasExtraKeys(database_file.entries[k]) =>
                  /\ k \in DOMAIN database_file'.entries
                  /\ database_file'.entries[k] = database_file.entries[k]
      ]_vars

\* C26 (as claimed): when two threads call lookup_flight_route on one
\* tracker, the writes to the route database exclude each other, so that a
\* record stored under a flight number is never replaced or removed by the
\* other thread.
C26_ExclusiveStoreWrites ==
    [][ \A k \in DOMAIN route_database.entries :
            /\ k \in DOMAIN route_database'.entries
            /\ route_database'.entries[k] = route_database.entries[k] ]_vars

\* C27 (as claimed): once a thread has recorded a 429 of Aerodatabox, no
\* thread sends Aerodatabox a further request while the cool-down lasts,
\* whether or not it had passed its own quota test before.
C27_QuotaVisibleAtOnce ==
    [][ InCooldown(quota_exceeded, quota_exceeded_until, now) =>
            \A t \in Threads :
                threads'[t].c.requests = threads[t].c.requests ]_vars

\* no request is being served
Quiescent == \A h \in Handlers : handlers[h].pc = "idle"

\* C29 (as claimed): whenever the web controller has served all its
\* requests, however they interleaved, at most one display process that it
\* started is alive, and active_process is None exactly when active_mode is
\* None.
C29_OneModeAtATime ==
    Quiescent =>
        /\ Cardinality(children) <= 1
        /\ (active_process = NoProcess) <=> (active_mode = "None")

\* C30 (as claimed): the interval of update_flights is doubled exactly
\* when more than 3 fetches in a row have failed; a failed fetch raises
\* consecutive_failures by exactly one, a successful fetch, empty or not,
\* sets it to 0, and a failed or empty fetch leaves last_seen_flight as it
\* is.
C30_BackOff ==
    /\ [](effective_interval(consecutive_failures) = update_interval * 2
            <=> poll.failed_in_a_row > 3)
    /\ [][ (poll.fetched = "none" /\ poll'.fetched \in Fetches) =>
             /\ poll'.fetched = "failed" =>
                   consecutive_failures' = consecutive_failures + 1
             /\ poll'.fetched # "failed" => consecutive_failures' = 0
             /\ poll'.fetched \in {"failed", "empty"} =>
                   last_seen_flight' = last_seen_flight ]_vars

====
